---- MODULE Spec2Model ----
(***************************************************************************)
(* Eagle Access: the user registry (backend/user_manager.py), the          *)
(* embedding store (backend/embedding_manager.py), the live matcher        *)
(* (backend/face_recognition.py) and the Flask registration workflow       *)
(* (api.py), as a state machine of request threads and background          *)
(* registration threads working on three JSON files.                       *)
(*                                                                         *)
(* A JSON object is an ordered sequence of <<key, value>> pairs (Python    *)
(* dicts and json keep insertion order).  A file is a record               *)
(* [ok, data]: open(path, "w") truncates the file (ok = FALSE, json.load   *)
(* of it raises JSONDecodeError) and the close after json.dump puts the    *)
(* whole new content in place.  Two writers whose bytes overlap in one     *)
(* file are not modelled below the level of whole contents.                *)
(*                                                                         *)
(* An embedding vector is an exact rational vector [num, den] (the         *)
(* float32 rounding of numpy is not modelled).                             *)
(***************************************************************************)
EXTENDS Integers, Sequences, FiniteSets, TLC

\* ------------------------------------------------------------------ bounds
\* Requests the service accepts in one run, served by concurrent threads.
MaxRequests == 2
\* Requests the service accepts in one run, served one after the other.
MaxSeqRequests == 3
\* Frames a capture session takes at most (NUM_IMAGES, 30 in config.py).
MaxImages == 1
\* Frames one verification reads before the camera stops delivering.
MaxFrames == 2
\* Sample vectors of one enrollment when the centroid is computed.
MaxSamples == 3

\* ------------------------------------------------------------ input domains
Threads == {"t1", "t2"}
SeqThread == "t1"
Names == {"ada", "Ada", "bob"}
UIDs == {"1a2b3c4d", "9f8e7d6c"}
\* What a client may send as the name of an enrollment ("" is a missing field).
RegisterInputs == Names \cup {""}
\* What a client may send to delete: a name, in another case than the one
\* registered, or a user_id.
Identifiers == {"ADA", "bob", "1a2b3c4d"}
NoThread == "free"

\* str.lower() on the strings above.
Lower(s) ==
  CASE s = "Ada" -> "ada"
    [] s = "ADA" -> "ada"
    [] OTHER -> s

\* ------------------------------------------------------- ordered JSON objects
Keys(d) == {d[i][1] : i \in 1..Len(d)}

HasKey(d, k) == \E i \in 1..Len(d) : d[i][1] = k

Get(d, k) == d[CHOOSE i \in 1..Len(d) : d[i][1] = k][2]

\* d[k] = v: in place when the key exists, appended otherwise.
Put(d, k, v) ==
  IF HasKey(d, k)
  THEN [i \in 1..Len(d) |-> IF d[i][1] = k THEN <<k, v>> ELSE d[i]]
  ELSE Append(d, <<k, v>>)

\* del d[k]
Del(d, k) == SelectSeq(d, LAMBDA e : e[1] # k)

Truncated == [ok |-> FALSE, data |-> << >>]

Written(d) == [ok |-> TRUE, data |-> d]

\* ------------------------------------------------------------------ vectors
RECURSIVE GCD(_, _)
GCD(a, b) == IF b = 0 THEN a ELSE GCD(b, a % b)

Abs(x) == IF x < 0 THEN -x ELSE x

RECURSIVE GCDSeq(_, _)
GCDSeq(s, g) == IF s = << >> THEN g ELSE GCDSeq(Tail(s), GCD(g, Abs(Head(s))))

\* The rational vector num/den in lowest terms.
Reduce(num, den) ==
  LET g == GCDSeq(num, den)
  IN  [num |-> [i \in 1..Len(num) |-> num[i] \div g], den |-> den \div g]

Vec(t) == [num |-> t, den |-> 1]

RECURSIVE SumScaled(_, _)
\* sum of vs[i].num * (L / vs[i].den), component-wise
SumScaled(vs, L) ==
  LET v == Head(vs)
      s == [i \in 1..Len(v.num) |-> v.num[i] * (L \div v.den)]
  IN  IF Len(vs) = 1 THEN s
      ELSE LET r == SumScaled(Tail(vs), L)
           IN  [i \in 1..Len(s) |-> s[i] + r[i]]

RECURSIVE ProdDen(_)
ProdDen(vs) == IF vs = << >> THEN 1 ELSE Head(vs).den * ProdDen(Tail(vs))

MeanVec_First(vs) == Head(vs)

\* arr.mean(axis=0) of a non-empty list of vectors
MeanVec(vs) ==
  LET L == ProdDen(vs)
  IN  Reduce(SumScaled(vs, L), L * Len(vs))

\* average_embeddings: [] for no embeddings, else the one-item list [mean].
average_embeddings(embeddings) ==
  IF embeddings = << >> THEN << >> ELSE << MeanVec(embeddings) >>

\* What DeepFace.represent returns for an enrollment sample that has an
\* embedding.
SampleVecs == {Vec(<<1, 1, 0>>)}

\* Sample vectors of an enrollment with more than one image.
CentroidSamples == {Vec(<<1, 1, 0>>), Vec(<<0, 1, 1>>), Vec(<<3, 0, -1>>)}

\* The vector an earlier run stored for a user.
EnrolledVec(name) == IF name = "bob" THEN Vec(<<0, 1, 1>>) ELSE Vec(<<1, 1, 0>>)

\* What DeepFace.represent may return for the live frame of a verification:
\* against <<1, 1, 0>> and <<0, 1, 1>> the cosines 1 and 1/2, 1/2 and 1/2,
\* 0 and -0.7071, 0 and 0.2887, 1/2 and 1.
ProbeVecs == {<<1, 1, 0>>, <<1, 0, 1>>, <<0, 0, -1>>, <<1, -1, 2>>, <<0, 1, 1>>}

\* SIMILARITY_THRESHOLD = 0.50
SIMILARITY_THRESHOLD == [num |-> 1, den |-> 2]

Dot(a, b) ==
  LET RECURSIVE S(_)
      S(i) == IF i = 0 THEN 0 ELSE a[i] * b[i] + S(i - 1)
  IN  S(Len(a))

\* Normalizer(norm="l2").transform of one row: the vector of length 1 in the
\* direction of v, kept exact as num / sqrt(norm2) with num the least
\* integer vector of that direction; a zero row stays as it is.
Normalizer(v) ==
  LET g == GCDSeq(v.num, 0)
      dir == [i \in 1..Len(v.num) |-> v.num[i] \div g]
  IN  IF g = 0 THEN [num |-> v.num, norm2 |-> 1]
      ELSE [num |-> dir, norm2 |-> Dot(dir, dir)]

Sign(x) == IF x > 0 THEN 1 ELSE IF x < 0 THEN -1 ELSE 0

\* 0.0
Zero == [sgn |-> 0, num |-> 0, den |-> 1]

\* The cosine of the vectors a and b, exact: sgn * sqrt(num / den) with
\* num / den in lowest terms; against a zero vector the cosine is 0.
cosine_similarity(a, b) ==
  LET dot == Dot(a, b)
      n2 == Dot(a, a) * Dot(b, b)
      g == GCD(dot * dot, n2)
  IN  IF n2 = 0 \/ dot = 0 THEN Zero
      ELSE [sgn |-> Sign(dot), num |-> (dot * dot) \div g, den |-> n2 \div g]

\* s > t for two cosines
Greater(s, t) == s.sgn * s.num * t.den > t.sgn * t.num * s.den

\* The comparison with the threshold taken as not smaller.
Exceeds_OrEqual(s, r) ==
  s.sgn * s.num * r.den * r.den >= Sign(r.num) * r.num * r.num * s.den

\* confidence > threshold, the threshold a rational num/den
Exceeds(s, r) ==
  s.sgn * s.num * r.den * r.den > Sign(r.num) * r.num * r.num * s.den

\* f"{x:.4f}" and the literal "0.00": the text of a number with so many
\* decimals, kept as the number and the count of decimals.
Format(x, decimals) == [value |-> x, decimals |-> decimals]

ArgMax_First(sims) == 1

\* int(np.argmax(sims)): the first index of the greatest score
ArgMax(sims) ==
  CHOOSE i \in 1..Len(sims) :
    /\ \A j \in 1..Len(sims) : ~Greater(sims[j], sims[i])
    /\ \A j \in 1..(i - 1) : Greater(sims[i], sims[j])

\* ------------------------------------------------------------------- state
VARIABLES
  USERS_FILE,           \* users.json: user_id -> name
  EMBED_FILE,           \* embeddings.json: name -> list of vectors
  LOG_FILE,             \* access_log.json: list of decisions
  DATASET_DIR,          \* name -> its folder: "none", "empty" or "images"
  registration_status,  \* api.registration_status, "none": no key
  status_lock,          \* the thread inside "with status_lock", or NoThread
  th,                   \* each thread's position and local variables, and
                        \* as history: pre, what a create or delete was
                        \* asked and found in the files, old, the job
                        \* state an enrollment overwrote, emb, the last
                        \* embedding a verification got from a frame, and
                        \* captured, how the capture of an enrollment
                        \* ended: "no_camera", "no_frames" or "frames"
  budget,               \* requests the run still accepts
  clock,                \* datetime.now(), in ticks
  deleted               \* history: the names for which a delete returned
                        \* True and no enrollment was accepted since

vars == <<USERS_FILE, EMBED_FILE, LOG_FILE, DATASET_DIR, registration_status,
          status_lock, th, budget, clock, deleted>>

Idle ==
  [pc |-> "idle", name |-> "", uid |-> "", users |-> << >>, db |-> << >>,
   embs |-> << >>, saved |-> 0, outcome |-> "", resp |-> "none",
   pre |-> << >>, old |-> "", decision |-> << >>, emb |-> << >>,
   frames |-> 0, log |-> << >>, captured |-> ""]

\* The users of e whose enrollment job saved embeddings.
Saved(e) == SelectSeq(e, LAMBDA u : u[3])

\* The start of the service on the files an earlier run left, with the users
\* of e registered: <<uid, name, saved>>, saved being FALSE for a user whose
\* enrollment job ended without embeddings.  The status map and the lock
\* are new in every run.
InitWith(E, max) ==
  /\ \E e \in E :
       /\ USERS_FILE = Written([i \in 1..Len(e) |-> <<e[i][1], e[i][2]>>])
       /\ EMBED_FILE =
            Written([i \in 1..Len(Saved(e)) |->
                       <<Saved(e)[i][2], <<EnrolledVec(Saved(e)[i][2])>> >>])
       /\ DATASET_DIR =
            [n \in Names |->
               IF \E i \in 1..Len(e) : e[i][2] = n THEN "images" ELSE "none"]
  /\ LOG_FILE = Written(<< >>)
  /\ registration_status = [n \in Names |-> "none"]
  /\ status_lock = NoThread
  /\ th = [p \in Threads |-> Idle]
  /\ budget = max
  /\ clock = 0
  /\ deleted = {}

\* No user, or "bob" enrolled.
Enrolled == {<< >>, << <<"9f8e7d6c", "bob", TRUE>> >>}

Init == InitWith(Enrolled, MaxRequests)

\* Thread p moves to the record r.
Goto(p, r) == th' = [th EXCEPT ![p] = r]

\* Thread p ends its request with response resp.
Return(p, resp) == Goto(p, [Idle EXCEPT !.resp = resp])

\* A request comes in and thread p takes it.
Accept(p) ==
  /\ th[p].pc = "idle"
  /\ budget > 0
  /\ budget' = budget - 1

\* ------------------------------------------------------- user_manager.py
\* The duplicate check comparing the names as they are written.
NameTaken_CaseSensitive(users, name) ==
  \E i \in 1..Len(users) : users[i][2] = name

\* The duplicate check lowering the stored name only.
NameTaken_StoredLowered(users, name) ==
  \E i \in 1..Len(users) : Lower(users[i][2]) = name

\* any(info["name"].lower() == name.lower() for info in users.values())
NameTaken(users, name) ==
  \E i \in 1..Len(users) : Lower(users[i][2]) = Lower(name)

\* add_user_record up to its write: list_users(), the duplicate check
\* (ValueError), the new user_id, users[user_id] = {"name": name}.
\* A file caught between truncation and write makes json.load raise
\* JSONDecodeError, a ValueError too; register_user answers both with 400.
\* uuid4()[:8] is drawn without a look at the keys in use.
add_user_record(p, name) ==
  IF ~USERS_FILE.ok
  THEN Return(p, "bad_request")
  ELSE IF NameTaken(USERS_FILE.data, name)
  THEN Goto(p, [Idle EXCEPT !.resp = "duplicate", !.name = name])
  ELSE \E uid \in UIDs :
         Goto(p, [Idle EXCEPT !.pc = "add_open", !.name = name, !.uid = uid,
                    !.users = Put(USERS_FILE.data, uid, name),
                    !.pre = <<name, USERS_FILE.data, EMBED_FILE.data,
                              DATASET_DIR>>])

\* POST /register with the form field name: a missing name is answered 400
\* at once, else add_user_record is entered.
register_user(p, name) ==
  /\ Accept(p)
  /\ IF name = ""
     THEN Return(p, "missing_name")
     ELSE add_user_record(p, name)
  /\ UNCHANGED <<deleted, USERS_FILE, EMBED_FILE, LOG_FILE, DATASET_DIR,
                 registration_status, status_lock, clock>>

RegisterRequest(p) == \E name \in RegisterInputs : register_user(p, name)

\* _write_json(USERS_FILE, users): open(path, "w")
AddOpen(p) ==
  /\ th[p].pc = "add_open"
  /\ USERS_FILE' = Truncated
  /\ Goto(p, [th[p] EXCEPT !.pc = "add_flush"])
  /\ UNCHANGED <<deleted, EMBED_FILE, LOG_FILE, DATASET_DIR, registration_status,
                 status_lock, budget, clock>>

\* mkdir(parents=True, exist_ok=True): an existing folder keeps its images.
Mkdir(dirs, name) ==
  IF dirs[name] = "none" THEN [dirs EXCEPT ![name] = "empty"] ELSE dirs

\* _write_json(USERS_FILE, users): json.dump and close; then the dataset
\* folders of the new user are made and the user_id returned.
AddFlush(p) ==
  /\ th[p].pc = "add_flush"
  /\ USERS_FILE' = Written(th[p].users)
  /\ DATASET_DIR' = Mkdir(DATASET_DIR, th[p].name)
  /\ Goto(p, [th[p] EXCEPT !.pc = "reg_lock", !.users = << >>,
                !.pre = << >>])
  /\ UNCHANGED <<deleted, EMBED_FILE, LOG_FILE, registration_status,
                 status_lock, budget, clock>>

\* ------------------------------------------------------------------ api.py
\* register_user: "with status_lock:" entered.
RegLock(p) ==
  /\ th[p].pc = "reg_lock"
  /\ status_lock = NoThread
  /\ status_lock' = p
  /\ Goto(p, [th[p] EXCEPT !.pc = "reg_set"])
  /\ UNCHANGED <<deleted, USERS_FILE, EMBED_FILE, LOG_FILE, DATASET_DIR,
                 registration_status, budget, clock>>

\* register_user keeping the job state a name already has (setdefault).
RegSet_KeepsOld(p) ==
  /\ th[p].pc = "reg_set"
  /\ status_lock = p
  /\ registration_status' =
       [registration_status EXCEPT ![th[p].name] =
          IF @ = "none" THEN "processing" ELSE @]
  /\ status_lock' = NoThread
  /\ Goto(p, [th[p] EXCEPT !.pc = "w_capture", !.resp = "started",
                !.old = registration_status[th[p].name]])
  /\ deleted' = deleted \ {th[p].name}
  /\ UNCHANGED <<USERS_FILE, EMBED_FILE, LOG_FILE, DATASET_DIR, budget, clock>>

\* register_user starting the job inside its "with status_lock:" block.
RegSet_HoldsLock(p) ==
  /\ th[p].pc = "reg_set"
  /\ status_lock = p
  /\ registration_status' =
       [registration_status EXCEPT ![th[p].name] = "processing"]
  /\ status_lock' = p
  /\ Goto(p, [th[p] EXCEPT !.pc = "w_capture", !.resp = "started",
                !.old = registration_status[th[p].name]])
  /\ deleted' = deleted \ {th[p].name}
  /\ UNCHANGED <<USERS_FILE, EMBED_FILE, LOG_FILE, DATASET_DIR, budget, clock>>

\* register_user: registration_status[name] = "processing", the lock released,
\* the background thread started and the response sent.  The thread of the
\* model goes on as that background thread.
RegSet(p) ==
  /\ th[p].pc = "reg_set"
  /\ status_lock = p
  /\ registration_status' =
       [registration_status EXCEPT ![th[p].name] = "processing"]
  /\ status_lock' = NoThread
  /\ Goto(p, [th[p] EXCEPT !.pc = "w_capture", !.resp = "started",
                !.old = registration_status[th[p].name]])
  /\ deleted' = deleted \ {th[p].name}
  /\ UNCHANGED <<USERS_FILE, EMBED_FILE, LOG_FILE, DATASET_DIR, budget, clock>>

\* The sequences of at most k elements of S.
SeqsUpTo(S, k) == UNION {[1..m -> S] : m \in 0..k}

\* The check of the number of frames letting every number through.
NoFrames_Never(n) == FALSE

\* process_registration: "if n == 0", no frames captured.
NoFrames(n) == n = 0

\* process_registration: photo_capture.capture_user_images(name).  The folders
\* are made, then the camera either cannot be opened (RuntimeError) or
\* delivers n frames, written as img_1 .. img_n beside what the folder
\* holds.  No camera and no frames end the job as "failed".
WCapture(p) ==
  /\ th[p].pc = "w_capture"
  /\ LET dirs == Mkdir(DATASET_DIR, th[p].name)
     IN  \/ /\ DATASET_DIR' = dirs
            /\ Goto(p, [th[p] EXCEPT !.pc = "w_lock", !.outcome = "failed",
                           !.old = "", !.captured = "no_camera"])
         \/ \E n \in 0..MaxImages :
              /\ DATASET_DIR' =
                   IF n = 0 THEN dirs ELSE [dirs EXCEPT ![th[p].name] = "images"]
              /\ IF NoFrames(n)
                 THEN Goto(p, [th[p] EXCEPT !.pc = "w_lock",
                                 !.outcome = "failed", !.old = "",
                                 !.captured = IF n = 0 THEN "no_frames"
                                              ELSE "frames"])
                 ELSE Goto(p, [th[p] EXCEPT !.pc = "w_embed", !.old = "",
                                 !.captured = IF n = 0 THEN "no_frames"
                                              ELSE "frames"])
  /\ UNCHANGED <<deleted, USERS_FILE, EMBED_FILE, LOG_FILE, registration_status,
                 status_lock, budget, clock>>

\* compute_embeddings_for_folder: one vector per image of the folder (at
\* most MaxImages of them), an image whose embedding fails or comes back
\* empty skipped; no folder or no image gives [].
compute_embeddings_for_folder(dirs, name) ==
  SeqsUpTo(SampleVecs, IF dirs[name] = "images" THEN MaxImages ELSE 0)

\* The guard of save_user_embeddings letting every list through.
NoEmbeddings_Never(embeddings) == FALSE

\* save_user_embeddings: "if not embeddings", nothing to save.
NoEmbeddings(embeddings) == embeddings = << >>

\* The embedding step without the "except Exception" of process_registration:
\* a call that raises ends the background thread where it is.
WEmbed_Uncaught(p) ==
  /\ th[p].pc = "w_embed"
  /\ \/ \E raw \in compute_embeddings_for_folder(DATASET_DIR, th[p].name) :
          LET embs == average_embeddings(raw)
          IN  IF NoEmbeddings(embs)
              THEN Goto(p, [th[p] EXCEPT !.pc = "w_lock", !.saved = 0,
                              !.outcome = "completed"])
              ELSE Goto(p, [th[p] EXCEPT !.pc = "save_read", !.embs = embs])
     \/ Goto(p, [Idle EXCEPT !.captured = th[p].captured,
                          !.resp = "job_failed"])
  /\ UNCHANGED <<deleted, USERS_FILE, EMBED_FILE, LOG_FILE, DATASET_DIR,
                 registration_status, status_lock, budget, clock>>

\* generate_and_save_embeddings_for_user up to the guard of
\* save_user_embeddings: nothing to save returns 0, and process_registration
\* goes on to "completed".  A call that raises outside the per-image try
\* (get_model, the listing of the folder, np.array) is caught by
\* process_registration ("except Exception") and the job ends as "failed".
WEmbed(p) ==
  /\ th[p].pc = "w_embed"
  /\ \/ \E raw \in compute_embeddings_for_folder(DATASET_DIR, th[p].name) :
          LET embs == average_embeddings(raw)
          IN  IF NoEmbeddings(embs)
              THEN Goto(p, [th[p] EXCEPT !.pc = "w_lock", !.saved = 0,
                              !.outcome = "completed"])
              ELSE Goto(p, [th[p] EXCEPT !.pc = "save_read", !.embs = embs])
     \/ Goto(p, [th[p] EXCEPT !.pc = "w_lock", !.outcome = "failed"])
  /\ UNCHANGED <<deleted, USERS_FILE, EMBED_FILE, LOG_FILE, DATASET_DIR,
                 registration_status, status_lock, budget, clock>>

\* save_user_embeddings: the file loaded ({} on JSONDecodeError) and
\* db[user_name] = embeddings.
SaveRead(p) ==
  /\ th[p].pc = "save_read"
  /\ LET db == IF EMBED_FILE.ok THEN EMBED_FILE.data ELSE << >>
     IN  Goto(p, [th[p] EXCEPT !.pc = "save_open",
                    !.db = Put(db, th[p].name, th[p].embs)])
  /\ UNCHANGED <<deleted, USERS_FILE, EMBED_FILE, LOG_FILE, DATASET_DIR,
                 registration_status, status_lock, budget, clock>>

\* save_user_embeddings: open(EMBED_FILE, "w")
SaveOpen(p) ==
  /\ th[p].pc = "save_open"
  /\ EMBED_FILE' = Truncated
  /\ Goto(p, [th[p] EXCEPT !.pc = "save_flush"])
  /\ UNCHANGED <<deleted, USERS_FILE, LOG_FILE, DATASET_DIR, registration_status,
                 status_lock, budget, clock>>

\* save_user_embeddings: json.dump and close, len(embeddings) returned;
\* process_registration goes on to "completed".
SaveFlush(p) ==
  /\ th[p].pc = "save_flush"
  /\ EMBED_FILE' = Written(th[p].db)
  /\ Goto(p, [th[p] EXCEPT !.pc = "w_lock", !.db = << >>,
                !.saved = Len(th[p].embs), !.outcome = "completed"])
  /\ UNCHANGED <<deleted, USERS_FILE, LOG_FILE, DATASET_DIR, registration_status,
                 status_lock, budget, clock>>

\* process_registration: "with status_lock:" entered.
WLock(p) ==
  /\ th[p].pc = "w_lock"
  /\ status_lock = NoThread
  /\ status_lock' = p
  /\ Goto(p, [th[p] EXCEPT !.pc = "w_set"])
  /\ UNCHANGED <<deleted, USERS_FILE, EMBED_FILE, LOG_FILE, DATASET_DIR,
                 registration_status, budget, clock>>

\* process_registration: registration_status[name] = its outcome, the lock
\* released, the background thread ends.
WSet(p) ==
  /\ th[p].pc = "w_set"
  /\ status_lock = p
  /\ registration_status' =
       [registration_status EXCEPT ![th[p].name] = th[p].outcome]
  /\ status_lock' = NoThread
  /\ Goto(p, [Idle EXCEPT !.captured = th[p].captured,
                 !.resp = IF th[p].outcome = "completed" THEN "job_completed"
                          ELSE "job_failed"])
  /\ UNCHANGED <<deleted, USERS_FILE, EMBED_FILE, LOG_FILE, DATASET_DIR, budget, clock>>

\* ------------------------------------------------- delete_user_record
\* The search falling back to the first record when nothing matches.
FindTarget_OrFirst(users, name_or_id) ==
  LET hits == {i \in 1..Len(users) :
                 \/ users[i][1] = name_or_id
                 \/ Lower(users[i][2]) = Lower(name_or_id)}
  IN  IF hits = {} THEN (IF users = << >> THEN 0 ELSE 1)
      ELSE CHOOSE i \in hits : \A j \in hits : i <= j

\* The first record, in the order of the file, whose user_id is the
\* identifier or whose name is it in any case; 0 when there is none.
FindTarget(users, name_or_id) ==
  LET hits == {i \in 1..Len(users) :
                 \/ users[i][1] = name_or_id
                 \/ Lower(users[i][2]) = Lower(name_or_id)}
  IN  IF hits = {} THEN 0 ELSE CHOOSE i \in hits : \A j \in hits : i <= j

\* The name taken from the request instead of from the record found.
TargetName_AsTyped(users, t, name_or_id) == name_or_id

\* user_name = users[target_id]["name"]
TargetName(users, t, name_or_id) == users[t][2]

\* delete_user_record up to its first write: list_users(), the target
\* found (False returned when there is none), del users[target_id].
\* A truncated file raises JSONDecodeError out of the request (500).
delete_user_record(p, name_or_id) ==
  IF ~USERS_FILE.ok
  THEN Return(p, "error")
  ELSE LET users == USERS_FILE.data
           t == FindTarget(users, name_or_id)
       IN  IF t = 0
           THEN Return(p, "not_found")
           ELSE Goto(p, [Idle EXCEPT !.pc = "del_open",
                           !.uid = users[t][1],
                           !.name = TargetName(users, t, name_or_id),
                           !.users = Del(users, users[t][1]),
                           !.pre = <<name_or_id, users, EMBED_FILE.data,
                                     DATASET_DIR>>])

\* DELETE /delete/<name>
delete_user(p, name) ==
  /\ Accept(p)
  /\ delete_user_record(p, name)
  /\ UNCHANGED <<deleted, USERS_FILE, EMBED_FILE, LOG_FILE, DATASET_DIR,
                 registration_status, status_lock, clock>>

DeleteRequest(p) == \E name \in Identifiers : delete_user(p, name)

\* _write_json(USERS_FILE, users): open(path, "w")
DelOpen(p) ==
  /\ th[p].pc = "del_open"
  /\ USERS_FILE' = Truncated
  /\ Goto(p, [th[p] EXCEPT !.pc = "del_flush"])
  /\ UNCHANGED <<deleted, EMBED_FILE, LOG_FILE, DATASET_DIR, registration_status,
                 status_lock, budget, clock>>

\* _write_json(USERS_FILE, users): json.dump and close
DelFlush(p) ==
  /\ th[p].pc = "del_flush"
  /\ USERS_FILE' = Written(th[p].users)
  /\ Goto(p, [th[p] EXCEPT !.pc = "del_eread", !.users = << >>])
  /\ UNCHANGED <<deleted, EMBED_FILE, LOG_FILE, DATASET_DIR, registration_status,
                 status_lock, budget, clock>>

\* delete_user_record, step 2: embeds = _read_json(EMBED_FILE), and
\* del embeds[user_name] when the name is a key.
DelEmbedRead(p) ==
  /\ th[p].pc = "del_eread"
  /\ IF ~EMBED_FILE.ok
     THEN Return(p, "error")
     ELSE IF HasKey(EMBED_FILE.data, th[p].name)
     THEN Goto(p, [th[p] EXCEPT !.pc = "del_eopen",
                     !.db = Del(EMBED_FILE.data, th[p].name)])
     ELSE Goto(p, [th[p] EXCEPT !.pc = "del_rmtree"])
  /\ UNCHANGED <<deleted, USERS_FILE, EMBED_FILE, LOG_FILE, DATASET_DIR,
                 registration_status, status_lock, budget, clock>>

\* _write_json(EMBED_FILE, embeds): open(path, "w")
DelEmbedOpen(p) ==
  /\ th[p].pc = "del_eopen"
  /\ EMBED_FILE' = Truncated
  /\ Goto(p, [th[p] EXCEPT !.pc = "del_eflush"])
  /\ UNCHANGED <<deleted, USERS_FILE, LOG_FILE, DATASET_DIR, registration_status,
                 status_lock, budget, clock>>

\* _write_json(EMBED_FILE, embeds): json.dump and close
DelEmbedFlush(p) ==
  /\ th[p].pc = "del_eflush"
  /\ EMBED_FILE' = Written(th[p].db)
  /\ Goto(p, [th[p] EXCEPT !.pc = "del_rmtree", !.db = << >>])
  /\ UNCHANGED <<deleted, USERS_FILE, LOG_FILE, DATASET_DIR, registration_status,
                 status_lock, budget, clock>>

\* delete_user_record, step 3: shutil.rmtree(user_root, ignore_errors=True),
\* and True returned.
DelRmtree(p) ==
  /\ th[p].pc = "del_rmtree"
  /\ DATASET_DIR' = [DATASET_DIR EXCEPT ![th[p].name] = "none"]
  /\ Return(p, "deleted")
  /\ deleted' = deleted \cup {th[p].name}
  /\ UNCHANGED <<USERS_FILE, EMBED_FILE, LOG_FILE, registration_status,
                 status_lock, budget, clock>>

\* --------------------------------------------------------- read requests
\* GET /list: user_manager.list_users(), the users map as it is in the file.
ListUsers(p) ==
  /\ Accept(p)
  /\ IF ~USERS_FILE.ok
     THEN Return(p, "error")
     ELSE Goto(p, [Idle EXCEPT !.resp = "listed", !.users = USERS_FILE.data])
  /\ UNCHANGED <<deleted, USERS_FILE, EMBED_FILE, LOG_FILE, DATASET_DIR,
                 registration_status, status_lock, clock>>

\* GET /status/<name>: registration_status_check enters "with status_lock:".
StatusRequest(p) ==
  /\ Accept(p)
  /\ status_lock = NoThread
  /\ status_lock' = p
  /\ \E name \in Names :
       Goto(p, [Idle EXCEPT !.pc = "st_get", !.name = name])
  /\ UNCHANGED <<deleted, USERS_FILE, EMBED_FILE, LOG_FILE, DATASET_DIR,
                 registration_status, clock>>

StatusAnswer_NoDefault(status) == status

\* registration_status_check: "if not status" answers "unknown", else the
\* entry of the map.
StatusAnswer(status) == IF status = "none" THEN "unknown" ELSE status

\* registration_status_check: registration_status.get(name), the lock
\* released, the answer sent.
StatusGet(p) ==
  /\ th[p].pc = "st_get"
  /\ status_lock = p
  /\ status_lock' = NoThread
  /\ Return(p, StatusAnswer(registration_status[th[p].name]))
  /\ UNCHANGED <<deleted, USERS_FILE, EMBED_FILE, LOG_FILE, DATASET_DIR,
                 registration_status, budget, clock>>

\* ------------------------------------------------- face_recognition.py
\* _load_db: the (name, mean vector) pairs of embeddings.json in the order
\* of the file, every mean vector L2-normalised.
_load_db(db) ==
  [i \in 1..Len(db) |-> <<db[i][1], Normalizer(MeanVec(db[i][2]))>>]

EmptyDb_Never(db) == FALSE

\* _load_db(): "if not db", the check that raises for a store without entry.
EmptyDb(db) == db = << >>

\* POST /access, verify_face_live(show_window=False) up to its loop:
\* _load_db() raises for a file that does not parse and for an empty one,
\* the camera may not open (RuntimeError), the decision starts as denied
\* with the time of now.
VerifyRequest(p) ==
  /\ Accept(p)
  /\ IF ~EMBED_FILE.ok \/ EmptyDb(EMBED_FILE.data)
     THEN Return(p, "error") /\ clock' = clock
     ELSE \/ Return(p, "error") /\ clock' = clock
          \/ /\ Goto(p, [Idle EXCEPT !.pc = "v_frame",
                           !.db = _load_db(EMBED_FILE.data),
                           !.decision = [status |-> "denied", name |-> "None",
                                         confidence |-> Format(Zero, 2),
                                         scores |-> << >>, time |-> clock]])
             /\ clock' = clock + 1
  /\ UNCHANGED <<deleted, USERS_FILE, EMBED_FILE, LOG_FILE, DATASET_DIR,
                 registration_status, status_lock>>

\* The decision after the comparison of the embedding emb of a frame,
\* L2-normalised, with the rows of the database.
Compare(decision, db, emb) ==
  LET probe == Normalizer(Vec(emb))
      sims == [i \in 1..Len(db) |->
                 cosine_similarity(probe.num, db[i][2].num)]
      max_idx == ArgMax(sims)
      confidence == sims[max_idx]
  IN  IF Exceeds(confidence, SIMILARITY_THRESHOLD)
      THEN [decision EXCEPT !.status = "granted", !.name = db[max_idx][1],
                            !.confidence = Format(confidence, 4),
                            !.scores = <<confidence>>]
      ELSE [decision EXCEPT !.status = "denied", !.name = "Unknown",
                            !.confidence = Format(confidence, 4),
                            !.scores = <<confidence>>]

\* One turn of the loop of verify_face_live: cap.read() fails and the loop
\* ends; or DeepFace.represent raises (the decision stays, confidence 0.0);
\* or it returns nothing usable (denied, confidence 0.0); or it returns an
\* embedding, which is compared.  The loop ends after the turn when
\* confidence > 0.0 (the label "Access Denied" never holds "Unknown").
\* The camera delivers at most MaxFrames frames.
VerifyFrame(p) ==
  /\ th[p].pc = "v_frame"
  /\ \/ Goto(p, [th[p] EXCEPT !.pc = "vlog_read"])
     \/ /\ th[p].frames < MaxFrames
        /\ Goto(p, [th[p] EXCEPT !.frames = @ + 1])
     \/ /\ th[p].frames < MaxFrames
        /\ Goto(p, [th[p] EXCEPT !.frames = @ + 1,
                      !.decision = [@ EXCEPT !.status = "denied",
                                             !.name = "Unknown",
                                             !.confidence =
                                               Format(Zero, 4)]])
     \/ /\ th[p].frames < MaxFrames
        /\ \E emb \in ProbeVecs :
             LET d == Compare(th[p].decision, th[p].db, emb)
             IN  Goto(p, [th[p] EXCEPT !.frames = @ + 1, !.emb = emb,
                            !.decision = d,
                            !.pc = IF Greater(d.confidence.value, Zero)
                                   THEN "vlog_read" ELSE "v_frame"])
  /\ UNCHANGED <<deleted, USERS_FILE, EMBED_FILE, LOG_FILE, DATASET_DIR,
                 registration_status, status_lock, budget, clock>>

\* verify_face_live: the log loaded and the decision appended to it; a log
\* that does not parse ends the logging (except Exception) and the decision
\* is returned.
VLogRead(p) ==
  /\ th[p].pc = "vlog_read"
  /\ IF ~LOG_FILE.ok
     THEN Goto(p, [Idle EXCEPT !.resp = "decided",
                     !.decision = th[p].decision, !.emb = th[p].emb,
                     !.db = th[p].db])
     ELSE Goto(p, [th[p] EXCEPT !.pc = "vlog_open",
                     !.log = Append(LOG_FILE.data, th[p].decision)])
  /\ UNCHANGED <<deleted, USERS_FILE, EMBED_FILE, LOG_FILE, DATASET_DIR,
                 registration_status, status_lock, budget, clock>>

\* verify_face_live: open(LOG_FILE, "w")
VLogOpen(p) ==
  /\ th[p].pc = "vlog_open"
  /\ LOG_FILE' = Truncated
  /\ Goto(p, [th[p] EXCEPT !.pc = "vlog_flush"])
  /\ UNCHANGED <<deleted, USERS_FILE, EMBED_FILE, DATASET_DIR, registration_status,
                 status_lock, budget, clock>>

\* verify_face_live: json.dump and close, the decision returned.
VLogFlush(p) ==
  /\ th[p].pc = "vlog_flush"
  /\ LOG_FILE' = Written(th[p].log)
  /\ Goto(p, [Idle EXCEPT !.resp = "decided",
                 !.decision = th[p].decision, !.emb = th[p].emb,
                 !.db = th[p].db])
  /\ UNCHANGED <<deleted, USERS_FILE, EMBED_FILE, DATASET_DIR, registration_status,
                 status_lock, budget, clock>>

\* ------------------------------------------------------------ specification
Step(p) ==
  \/ RegisterRequest(p)
  \/ AddOpen(p)
  \/ AddFlush(p)
  \/ RegLock(p)
  \/ RegSet(p)
  \/ WCapture(p)
  \/ WEmbed(p)
  \/ SaveRead(p)
  \/ SaveOpen(p)
  \/ SaveFlush(p)
  \/ WLock(p)
  \/ WSet(p)
  \/ DeleteRequest(p)
  \/ DelOpen(p)
  \/ DelFlush(p)
  \/ DelEmbedRead(p)
  \/ DelEmbedOpen(p)
  \/ DelEmbedFlush(p)
  \/ DelRmtree(p)
  \/ ListUsers(p)
  \/ StatusRequest(p)
  \/ StatusGet(p)

\* Requests served by concurrent threads, each enrollment going on in its
\* background thread.
Next == \E p \in Threads : Step(p)

Spec == Init /\ [][Next]_vars

\* One request at a time, each enrollment run to its end before the next
\* request: the operations as sequential calls.
InitSeq == InitWith(Enrolled, MaxSeqRequests)

NextSeq == Step(SeqThread)

SeqSpec == InitSeq /\ [][NextSeq]_vars

\* What thread p does once it has taken a request: every step but the
\* arrival of a request.
Work(p) ==
  \/ AddOpen(p)
  \/ AddFlush(p)
  \/ RegLock(p)
  \/ RegSet(p)
  \/ WCapture(p)
  \/ WEmbed(p)
  \/ SaveRead(p)
  \/ SaveOpen(p)
  \/ SaveFlush(p)
  \/ WLock(p)
  \/ WSet(p)
  \/ DelOpen(p)
  \/ DelFlush(p)
  \/ DelEmbedRead(p)
  \/ DelEmbedOpen(p)
  \/ DelEmbedFlush(p)
  \/ DelRmtree(p)
  \/ StatusGet(p)

\* The concurrent service with every thread scheduled again and again, and
\* capture and embedding calls that return or raise.
FairSpec == Init /\ [][Next]_vars /\ \A p \in Threads : WF_vars(Work(p))

\* Verification requests served by concurrent threads on the stores of
\* earlier runs: no user, "bob" registered without embeddings, "bob"
\* enrolled, or "ada" and "bob" enrolled.
InitVerify ==
  InitWith({<< >>, << <<"9f8e7d6c", "bob", FALSE>> >>,
            << <<"9f8e7d6c", "bob", TRUE>> >>,
            << <<"1a2b3c4d", "ada", TRUE>>, <<"9f8e7d6c", "bob", TRUE>> >>},
           MaxRequests)

VerifyStep(p) ==
  \/ VerifyRequest(p)
  \/ VerifyFrame(p)
  \/ VLogRead(p)
  \/ VLogOpen(p)
  \/ VLogFlush(p)

NextVerify == \E p \in Threads : VerifyStep(p)

SpecVerify == InitVerify /\ [][NextVerify]_vars

\* The whole service: app.run(threaded=True) serves /register, /delete,
\* /users, /status and /access by concurrent threads on the same files.
StepAll(p) ==
  \/ Step(p)
  \/ VerifyStep(p)

NextAll == \E p \in Threads : StepAll(p)

SpecAll == Init /\ [][NextAll]_vars

\* The way of the sample vectors of one enrollment to the matcher, one call
\* after the other: generate_and_save_embeddings_for_user averages what
\* compute_embeddings_for_folder returned (kept in pre) and saves it, and
\* _load_db loads the store.
InitCentroid ==
  /\ \E e \in Enrolled :
       /\ USERS_FILE = Written([i \in 1..Len(e) |-> <<e[i][1], e[i][2]>>])
       /\ EMBED_FILE =
            Written([i \in 1..Len(e) |-> <<e[i][2], <<EnrolledVec(e[i][2])>> >>])
  /\ DATASET_DIR = [n \in Names |-> "images"]
  /\ LOG_FILE = Written(<< >>)
  /\ registration_status = [n \in Names |-> "none"]
  /\ status_lock = NoThread
  /\ \E name \in Names :
       \E raw \in SeqsUpTo(CentroidSamples, MaxSamples) \ {<< >>} :
         th = [p \in Threads |->
                 IF p = SeqThread
                 THEN [Idle EXCEPT !.pc = "c_average", !.name = name,
                                   !.pre = raw]
                 ELSE Idle]
  /\ budget = 0
  /\ clock = 0
  /\ deleted = {}

\* generate_and_save_embeddings_for_user: embs = average_embeddings(embs)
Average(p) ==
  /\ th[p].pc = "c_average"
  /\ Goto(p, [th[p] EXCEPT !.pc = "c_save",
                !.embs = average_embeddings(th[p].pre)])
  /\ UNCHANGED <<deleted, USERS_FILE, EMBED_FILE, LOG_FILE, DATASET_DIR,
                 registration_status, status_lock, budget, clock>>

\* save_user_embeddings(user_name, embs) as one call.
save_user_embeddings(p) ==
  /\ th[p].pc = "c_save"
  /\ ~NoEmbeddings(th[p].embs)
  /\ EMBED_FILE' = Written(Put(EMBED_FILE.data, th[p].name, th[p].embs))
  /\ Goto(p, [th[p] EXCEPT !.pc = "c_load", !.saved = Len(th[p].embs)])
  /\ UNCHANGED <<deleted, USERS_FILE, LOG_FILE, DATASET_DIR, registration_status,
                 status_lock, budget, clock>>

\* _load_db() of a later verification.
Load(p) ==
  /\ th[p].pc = "c_load"
  /\ Goto(p, [th[p] EXCEPT !.pc = "c_loaded",
                !.db = _load_db(EMBED_FILE.data)])
  /\ UNCHANGED <<deleted, USERS_FILE, EMBED_FILE, LOG_FILE, DATASET_DIR,
                 registration_status, status_lock, budget, clock>>

CentroidStep(p) ==
  \/ Average(p)
  \/ save_user_embeddings(p)
  \/ Load(p)

NextCentroid == CentroidStep(SeqThread)

SpecCentroid == InitCentroid /\ [][NextCentroid]_vars

\* ------------------------------------------------------------------ claims
Terminal == {"completed", "failed"}

\* Thread p is the background unit of work of an enrollment.
InJob(p) ==
  th[p].pc \in {"w_capture", "w_embed", "save_read", "save_open",
                "save_flush", "w_lock", "w_set"}

\* Record name is in users under a name equal to it in some case.
SameNameIn(users, name) ==
  \E i \in 1..Len(users) : Lower(users[i][2]) = Lower(name)

\* C1: the job state of a name becomes "completed" only when the save of
\* that job stored a non-empty entry for the name: a job whose samples all
\* failed embedding generation (save returned 0) does not end "completed".
C1_CompletedOnlyAfterSave ==
  [][\A p \in Threads :
       (/\ th[p].pc = "w_set"
        /\ th'[p].pc = "idle"
        /\ registration_status'[th[p].name] = "completed")
       => /\ th[p].saved > 0
          /\ HasKey(EMBED_FILE.data, th[p].name)]_vars

\* The cosine of a and b is above the threshold r = num/den, 0 <= r.
CosineAbove(a, b, r) ==
  /\ Dot(a, b) > 0
  /\ r.den * r.den * Dot(a, b) * Dot(a, b)
       > r.num * r.num * Dot(a, a) * Dot(b, b)

CosineAt(a, b, r) ==
  /\ Dot(a, b) > 0
  /\ r.den * r.den * Dot(a, b) * Dot(a, b)
       = r.num * r.num * Dot(a, a) * Dot(b, b)

\* C2: a verification that has computed a probe embedding decides "granted"
\* if and only if the cosine of the probe with some loaded centroid is
\* strictly above the threshold; a best cosine at the threshold or below it
\* is "denied".
C2_GrantedIffAbove ==
  \A p \in Threads :
    (th[p].decision # << >> /\ th[p].emb # << >>)
    => (th[p].decision.status = "granted"
          <=> \E i \in 1..Len(th[p].db) :
                CosineAbove(th[p].emb, th[p].db[i][2].num,
                            SIMILARITY_THRESHOLD))

\* C2 witness: a verification returned "denied" for a probe whose best
\* cosine is the threshold itself.
C2_Witness ==
  \E p \in Threads :
    /\ th[p].resp = "decided"
    /\ th[p].decision.status = "denied"
    /\ th[p].emb # << >>
    /\ \E i \in 1..Len(th[p].db) :
         CosineAt(th[p].emb, th[p].db[i][2].num, SIMILARITY_THRESHOLD)
    /\ \A i \in 1..Len(th[p].db) :
         ~CosineAbove(th[p].emb, th[p].db[i][2].num, SIMILARITY_THRESHOLD)

\* C3: once the job state of a name is terminal it changes only by a newly
\* accepted enrollment of that name setting it to "processing"; it never
\* goes from one terminal value to the other.
C3_TerminalSetOnce ==
  [][\A n \in Names :
       (registration_status[n] \in Terminal
          /\ registration_status'[n] # registration_status[n])
       => /\ registration_status'[n] = "processing"
          /\ \E p \in Threads : th[p].pc = "reg_set" /\ th[p].name = n]_vars

\* C4: while the unit of work of a name runs, no other unit of work for that
\* name is in flight and no delete is rewriting the store to remove the
\* entry of that name.
C4_SoleWriter ==
  \A p, q \in Threads :
    (p # q /\ InJob(p))
    => /\ ~(InJob(q) /\ th[q].name = th[p].name)
       /\ ~(th[q].pc \in {"del_eopen", "del_eflush"}
              /\ th[q].name = th[p].name)

IsPrefix(s, t) ==
  /\ Len(s) <= Len(t)
  /\ \A i \in 1..Len(s) : s[i] = t[i]

\* C5: the access log only grows: the decision a verify call returns is in
\* the log when the call returns, and a write of the log keeps every entry
\* the log holds, at its position.
C5_LogAppendOnly ==
  [][\A p \in Threads :
       /\ (th[p].pc \in {"vlog_read", "vlog_flush"} /\ th'[p].pc = "idle")
            => /\ LOG_FILE'.ok
               /\ \E i \in 1..Len(LOG_FILE'.data) :
                    LOG_FILE'.data[i] = th[p].decision
       /\ (th[p].pc = "vlog_open" /\ th'[p].pc = "vlog_flush" /\ LOG_FILE.ok)
            => IsPrefix(LOG_FILE.data, th[p].log)]_vars

\* C6: no two records of the persisted registry have names that are equal
\* when compared without case.
C6_UniqueNames ==
  \A i, j \in 1..Len(USERS_FILE.data) :
    i # j => Lower(USERS_FILE.data[i][2]) # Lower(USERS_FILE.data[j][2])

\* C6 witness: two records in the registry while another thread is in the
\* middle of its own write of the registry.
C6_Witness ==
  /\ Len(USERS_FILE.data) = 2
  /\ \E p \in Threads : th[p].pc \in {"add_open", "del_open"}

\* C7: an enrollment whose name equals, without case, the name of a record
\* of the registry is answered "duplicate" in the request itself; the
\* registry, the embedding store, the folders and the job-status map stay
\* as they are and no background work starts.
C7_DuplicateRejected ==
  [][\A p \in Threads : \A name \in Names :
       (register_user(p, name) /\ SameNameIn(USERS_FILE.data, name))
       => /\ th'[p].pc = "idle"
          /\ th'[p].resp = "duplicate"
          /\ UNCHANGED <<USERS_FILE, EMBED_FILE, DATASET_DIR,
                         registration_status, status_lock>>
          /\ \A q \in Threads \ {p} : th'[q] = th[q]]_vars

\* C7 witness: "Ada" was rejected while the registry holds "ada".
C7_Witness ==
  \E p \in Threads :
    /\ th[p].pc = "idle"
    /\ th[p].resp = "duplicate"
    /\ th[p].name = "Ada"
    /\ \E i \in 1..Len(USERS_FILE.data) : USERS_FILE.data[i][2] = "ada"

\* C8 as stated: a registration request for a name that has a job-status
\* entry is accepted, and overwrites the job state with "processing".
C8_RepeatAccepted ==
  [][\A p \in Threads : \A name \in Names :
       (register_user(p, name) /\ registration_status[name] # "none")
       => th'[p].pc = "add_open"]_vars

\* C8 amended: a registration request for a name that has a job-status entry
\* is accepted when the registry, as add_user_record reads it, is readable
\* and holds no record of that name in any case, and is rejected otherwise
\* with the job state left as it is; an accepted one overwrites the job state
\* with "processing".
C8_RepeatAcceptedIfFree ==
  [][\A p \in Threads :
       /\ \A name \in Names :
            (register_user(p, name) /\ registration_status[name] # "none")
            => IF USERS_FILE.ok /\ ~SameNameIn(USERS_FILE.data, name)
               THEN th'[p].pc = "add_open" /\ th'[p].name = name
               ELSE /\ th'[p].pc = "idle"
                    /\ th'[p].resp \in {"duplicate", "bad_request"}
                    /\ registration_status' = registration_status
       /\ (th[p].pc = "reg_set" /\ th'[p].pc = "w_capture")
            => registration_status'[th[p].name] = "processing"]_vars

\* C8 witness: an accepted enrollment has just overwritten a terminal job
\* state of its name.
C8_Witness ==
  \E p \in Threads :
    /\ th[p].pc = "w_capture"
    /\ th[p].old \in Terminal
    /\ registration_status[th[p].name] = "processing"

\* C9: after a successful create(name), list() holds exactly one entry of
\* that name, under the user_id create returned, and every entry that was
\* there before the create.
C9_CreateThenList ==
  [][\A p \in Threads :
       (th[p].pc = "add_flush" /\ th'[p].pc = "reg_lock")
       => LET listed == USERS_FILE'.data
              before == th[p].pre[2]
          IN  /\ Cardinality({i \in 1..Len(listed) :
                                listed[i][2] = th[p].name}) = 1
              /\ HasKey(listed, th[p].uid)
              /\ Get(listed, th[p].uid) = th[p].name
              /\ \A i \in 1..Len(before) :
                   \E j \in 1..Len(listed) : listed[j] = before[i]]_vars

\* What a delete in progress has done so far, against what it found:
\* pre = <<identifier, users, embeddings, folders>>.
DeleteRegistryDone(p) ==
  /\ USERS_FILE.ok
  /\ USERS_FILE.data = SelectSeq(th[p].pre[2], LAMBDA e : e[1] # th[p].uid)
  /\ Len(USERS_FILE.data) = Len(th[p].pre[2]) - 1

DeleteStoreDone(p) ==
  /\ EMBED_FILE.ok
  /\ EMBED_FILE.data = SelectSeq(th[p].pre[3], LAMBDA e : e[1] # th[p].name)
  /\ ~HasKey(EMBED_FILE.data, th[p].name)

\* The record a delete resolved its identifier to is the one record of the
\* registry with that user_id, and it carries the identifier as its user_id
\* or, without case, as its name.
DeleteResolved(p) ==
  LET hits == {i \in 1..Len(th[p].pre[2]) : th[p].pre[2][i][1] = th[p].uid}
  IN  /\ Cardinality(hits) = 1
      /\ \A i \in hits :
           /\ th[p].pre[2][i][2] = th[p].name
           /\ \/ th[p].pre[2][i][1] = th[p].pre[1]
              \/ Lower(th[p].pre[2][i][2]) = Lower(th[p].pre[1])

\* Where a delete stands: first the registry, then the store, the folder last.
DeleteInOrder(p) ==
  /\ th[p].pc \in {"del_open", "del_flush", "del_eread", "del_eopen",
                   "del_eflush", "del_rmtree"} => DeleteResolved(p)
  /\ th[p].pc \in {"del_open", "del_flush"}
       => EMBED_FILE.data = th[p].pre[3] /\ DATASET_DIR = th[p].pre[4]
  /\ th[p].pc \in {"del_eread", "del_eopen", "del_eflush"}
       => DeleteRegistryDone(p) /\ DATASET_DIR = th[p].pre[4]
  /\ th[p].pc = "del_rmtree"
       => DeleteRegistryDone(p) /\ DeleteStoreDone(p)
          /\ DATASET_DIR = th[p].pre[4]

\* C10: delete resolves its identifier to one record; when it returns found
\* that record alone is gone from the registry, the store has no entry of
\* its name and every other record and entry is as it was; the registry is
\* written first, the store second, the folder removed last.
C10_DeleteCascade ==
  [][\A p \in Threads :
       /\ DeleteInOrder(p)'
       /\ (th[p].pc = "del_rmtree" /\ th'[p].pc = "idle")
            => /\ th'[p].resp = "deleted"
               /\ UNCHANGED <<USERS_FILE, EMBED_FILE>>
               /\ DATASET_DIR' = [th[p].pre[4] EXCEPT ![th[p].name] = "none"]]_vars

\* C10 witness: a delete by a name in another case returned found, and
\* another user's record and entry are still there.
C10_Witness ==
  \E p \in Threads :
    /\ th[p].pc = "idle"
    /\ th[p].resp = "deleted"
    /\ Len(USERS_FILE.data) = 1
    /\ Len(EMBED_FILE.data) = 1
    /\ DATASET_DIR["ada"] = "none"
    /\ registration_status["ada"] = "completed"

\* No record of users has the identifier as its user_id or, without case,
\* as its name.
Unknown(users, identifier) ==
  \A i \in 1..Len(users) :
    /\ users[i][1] # identifier
    /\ Lower(users[i][2]) # Lower(identifier)

\* C11: a delete whose identifier is no user_id and no name of the registry
\* answers not found, raising nothing, and leaves the registry, the
\* embedding store, the access log and the job-status map as they are.
C11_DeleteUnknown ==
  [][\A p \in Threads : \A identifier \in Identifiers :
       (delete_user(p, identifier) /\ Unknown(USERS_FILE.data, identifier))
       => /\ th'[p].pc = "idle"
          /\ th'[p].resp = "not_found"
          /\ UNCHANGED <<USERS_FILE, EMBED_FILE, LOG_FILE, DATASET_DIR,
                         registration_status>>]_vars

\* C11 witness: not found was answered on a registry that holds a record,
\* after an enrollment in this run.
C11_Witness ==
  \E p \in Threads :
    /\ th[p].pc = "idle"
    /\ th[p].resp = "not_found"
    /\ Len(USERS_FILE.data) >= 1
    /\ \E n \in Names : registration_status[n] # "none"

\* C12: a save of no vectors reports 0 saved and writes nothing: the job
\* goes from the embedding step straight to its end with saved = 0, and no
\* step of a save that holds no vectors changes the embedding store.
C12_EmptySaveNoWrite ==
  [][\A p \in Threads :
       /\ (th[p].pc = "w_embed" /\ th'[p].pc # "w_embed"
             /\ th'[p].embs = << >>)
            => /\ th'[p].pc = "w_lock"
               /\ th'[p].saved = 0
               /\ EMBED_FILE' = EMBED_FILE
       /\ (th[p].pc \in {"save_read", "save_open", "save_flush"}
             /\ th'[p] # th[p] /\ th[p].embs = << >>)
            => EMBED_FILE' = EMBED_FILE]_vars

\* C12 witness: a save of no vectors has returned 0 for a name whose entry
\* from an earlier enrollment is in the store.
C12_Witness ==
  \E p \in Threads :
    /\ th[p].pc = "w_lock"
    /\ th[p].outcome = "completed"
    /\ th[p].saved = 0
    /\ EMBED_FILE.ok
    /\ HasKey(EMBED_FILE.data, th[p].name)
    /\ Get(EMBED_FILE.data, th[p].name) = <<EnrolledVec(th[p].name)>>

\* C13: a job whose capture found no camera or returned no frame ends
\* with the job state of its name "failed", and no step of it after the
\* capture writes the embedding store.
C13_CaptureFailure ==
  [][\A p \in Threads :
       /\ (th[p].pc = "w_capture" /\ th'[p].pc # "w_capture"
             /\ th'[p].captured \in {"no_camera", "no_frames"})
            => /\ th'[p].pc = "w_lock"
               /\ EMBED_FILE' = EMBED_FILE
       /\ (InJob(p) /\ th[p].pc # "w_capture"
             /\ th[p].captured \in {"no_camera", "no_frames"}
             /\ th'[p] # th[p])
            => /\ EMBED_FILE' = EMBED_FILE
               /\ th'[p].pc \in {"w_lock", "w_set", "idle"}
               /\ th'[p].pc = "idle"
                    => registration_status'[th[p].name] = "failed"]_vars

\* C13 witness: a job that captured no frame has ended and the job state of
\* a name is "failed".
C13_Witness ==
  \E p \in Threads :
    /\ th[p].pc = "idle"
    /\ th[p].resp = "job_failed"
    /\ th[p].captured = "no_frames"
    /\ \E name \in Names : registration_status[name] = "failed"

\* C14: a job state "processing" is followed by a terminal one, and a job
\* that ends has just written a terminal state for its name: a capture
\* without camera or frames and an embedding call that raises end as
\* "failed".
C14_JobEnds ==
  /\ \A name \in Names :
       (registration_status[name] = "processing")
         ~> (registration_status[name] \in Terminal)
  /\ [][\A p \in Threads :
          (InJob(p) /\ th'[p].pc = "idle")
          => registration_status'[th[p].name] \in Terminal]_vars

\* C14 witness: a job whose capture delivered frames and whose embedding
\* call raised has ended, and the job state of a name is "failed".
C14_Witness ==
  \E p \in Threads :
    /\ th[p].pc = "idle"
    /\ th[p].resp = "job_failed"
    /\ th[p].captured = "frames"
    /\ \E name \in Names : registration_status[name] = "failed"

\* C15: a verification makes one capture-embed-match cycle: whatever the
\* frame gives (an embedding that raises or is unusable, a best cosine of
\* zero or below), the turn of the loop that took a frame is the last one
\* and the call goes on to log its decision.
C15_SingleCycle ==
  [][\A p \in Threads :
       (th[p].pc = "v_frame" /\ th'[p] # th[p])
       => /\ th'[p].pc = "vlog_read"
          /\ th'[p].frames <= 1]_vars

\* C16: when the first frame of a verification gives no embedding (the
\* call raises or returns nothing usable), the decision is "denied", names
\* nobody, has confidence 0.0 and carries an error marker.
C16_ProbeFailureMarked ==
  [][\A p \in Threads :
       (th[p].pc = "v_frame" /\ th[p].frames = 0 /\ th'[p].frames = 1
          /\ th'[p].emb = << >>)
       => /\ th'[p].decision.status = "denied"
          /\ th'[p].decision.name \in {"None", "Unknown"}
          /\ th'[p].decision.confidence.value = Zero
          /\ "error" \in DOMAIN th'[p].decision]_vars

\* C17: a verification request on an Embedding Store without entries, the
\* users of the registry being all without embeddings included, ends with
\* the error before any comparison: no decision is returned and the
\* Access Log is left as it was; and a granted decision, returned or
\* logged, always names a user with an entry in the store that was loaded.
C17_EmptyRegistry ==
  [][/\ \A p \in Threads :
          (VerifyRequest(p) /\ EMBED_FILE.ok /\ EMBED_FILE.data = << >>)
            => /\ th'[p].pc = "idle"
               /\ th'[p].resp = "error"
               /\ th'[p].decision = << >>
               /\ LOG_FILE' = LOG_FILE
     /\ \A p \in Threads :
          (th'[p].decision # << >> /\ th'[p].decision.status = "granted")
            => /\ HasKey(th'[p].db, th'[p].decision.name)
               /\ HasKey(EMBED_FILE'.data, th'[p].decision.name)
     /\ \A i \in 1..Len(LOG_FILE'.data) :
          LOG_FILE'.data[i].status = "granted"
            => HasKey(EMBED_FILE'.data, LOG_FILE'.data[i].name)]_vars

\* A request on a store without entry, "bob" being registered without
\* embeddings, has ended with the error and nothing is logged.
C17_Witness ==
  /\ EMBED_FILE.ok /\ EMBED_FILE.data = << >>
  /\ Len(USERS_FILE.data) >= 1
  /\ \E p \in Threads : th[p].pc = "idle" /\ th[p].resp = "error"
  /\ LOG_FILE.data = << >>

\* C18: a status query for a name is answered "unknown" exactly when no
\* enrollment request for that name was accepted since the start of the
\* service, and else with the state the name has, one of processing,
\* completed and failed: a name leaves "no entry" only in the step that
\* accepts an enrollment of it, that step always gives it an entry, an
\* entry never goes away, and the query answers "unknown" for no entry
\* and the entry otherwise; an enrollment answered as a duplicate, a bad
\* request or a missing name changes the state of no name.
C18_StatusUnknown ==
  [][/\ \A p \in Threads :
          (th[p].pc = "st_get" /\ th'[p].pc = "idle")
            => /\ (th'[p].resp = "unknown")
                    <=> (registration_status[th[p].name] = "none")
               /\ th'[p].resp # "unknown"
                    => /\ th'[p].resp = registration_status[th[p].name]
                       /\ th'[p].resp \in {"processing"} \cup Terminal
     /\ \A n \in Names :
          /\ (registration_status[n] = "none"
                /\ registration_status'[n] # "none")
               => \E p \in Threads : /\ th[p].pc = "reg_set"
                                      /\ th[p].name = n
                                      /\ th'[p].resp = "started"
          /\ registration_status[n] # "none"
               => registration_status'[n] \in {"processing"} \cup Terminal
     /\ \A p \in Threads :
          (th[p].pc = "reg_set" /\ th'[p].resp = "started")
            => registration_status'[th[p].name] = "processing"
     /\ \A p \in Threads :
          (th'[p] # th[p]
            /\ th'[p].resp \in {"duplicate", "bad_request", "missing_name"})
            => registration_status' = registration_status]_vars

\* A query is answered "processing" while the job of the name runs.
C18_Witness ==
  \E p, q \in Threads :
    /\ th[p].pc = "idle" /\ th[p].resp = "processing"
    /\ InJob(q) /\ registration_status[th[q].name] = "processing"

\* The positions of a thread inside a "with status_lock:" block.
InLock(p) == th[p].pc \in {"reg_set", "w_set", "st_get"}

\* C19: the job-status map is read and written only by the thread that
\* holds the status lock, and the lock is held only inside the blocks that
\* read or write the map, never during a capture, an embedding generation
\* or a read or write of a store: the next step of its holder releases it,
\* so a status query can take the lock while a registration job runs.
C19_StatusUnderLock ==
  [][/\ \A p \in Threads : (status_lock = p) <=> InLock(p)
     /\ \A p \in Threads :
          (status_lock' = p) <=> th'[p].pc \in {"reg_set", "w_set", "st_get"}
     /\ registration_status' # registration_status
          => \E p \in Threads : status_lock = p /\ th'[p] # th[p]
     /\ \A p \in Threads :
          (th[p].pc = "st_get" /\ th'[p] # th[p]) => status_lock = p
     /\ \A p \in Threads :
          (status_lock = p /\ th'[p] # th[p]) => status_lock' = NoThread]_vars

\* A status query holds the lock and reads the map while the job of
\* another thread is generating embeddings.
C19_Witness ==
  \E p, q \in Threads :
    /\ th[p].pc = "w_embed"
    /\ th[q].pc = "st_get" /\ status_lock = q

\* C20: a verification that loads the Embedding Store while the save of a
\* registration or a delete rewrites it reads a complete store, the one
\* before the write or the one after it, never an emptied or partly
\* written file.
C20_LoadSeesCompleteStore ==
  [][\A p \in Threads : VerifyRequest(p) => EMBED_FILE.ok]_vars

\* C21: the entries of the access log are in the order of their times: an
\* entry at an earlier position has a time not later than an entry at a
\* later position, also when verification requests overlap.
C21_LogChronological ==
  \A i, j \in 1..Len(LOG_FILE.data) :
    i < j => LOG_FILE.data[i].time <= LOG_FILE.data[j].time

\* Row i of db has the greatest cosine with the probe emb.
BestCandidate(db, emb, i) ==
  \A j \in 1..Len(db) :
    ~Greater(cosine_similarity(emb, db[j][2].num),
             cosine_similarity(emb, db[i][2].num))

\* The decision d is the one of the probe emb against db: some row of the
\* greatest cosine is the best candidate, its cosine is the confidence and
\* the only score, "granted" names it, "denied" names "Unknown".
DecidedBy(d, db, emb) ==
  \E i \in 1..Len(db) :
    /\ BestCandidate(db, emb, i)
    /\ d.confidence = Format(cosine_similarity(emb, db[i][2].num), 4)
    /\ d.scores = <<cosine_similarity(emb, db[i][2].num)>>
    /\ IF CosineAbove(emb, db[i][2].num, SIMILARITY_THRESHOLD)
       THEN d.status = "granted" /\ d.name = db[i][1]
       ELSE d.status = "denied" /\ d.name = "Unknown"

RECURSIVE SumOf(_, _)
SumOf(raw, i) ==
  IF raw = << >> THEN 0 ELSE Head(raw).num[i] + SumOf(Tail(raw), i)

\* The rational vector m is the component-wise arithmetic mean of raw.
IsMean(m, raw) ==
  \A i \in 1..Len(m.num) : m.num[i] * Len(raw) = m.den * SumOf(raw, i)

\* C23: for a non-empty sequence of sample vectors of a registration, the
\* centroid the matcher loads for the name is the component-wise arithmetic
\* mean of the vectors, compared in its L2-normalised form, and every
\* permutation of the sequence gives the same centroid.
C23_CentroidIsMean ==
  \A p \in Threads :
    th[p].pc = "c_loaded"
    => LET raw == th[p].pre
           centroid == MeanVec(Get(EMBED_FILE.data, th[p].name))
       IN  /\ IsMean(centroid, raw)
           /\ Get(th[p].db, th[p].name) = Normalizer(centroid)
           /\ \A f \in Permutations(1..Len(raw)) :
                LET other == [i \in 1..Len(raw) |-> raw[f[i]]]
                IN  _load_db(<< <<th[p].name, average_embeddings(other)>> >>)
                      = << <<th[p].name, Get(th[p].db, th[p].name)>> >>

\* Three vectors that are not all the same were averaged, saved over the
\* entry the name had, and loaded.
C23_Witness ==
  \E p \in Threads :
    /\ th[p].pc = "c_loaded"
    /\ Len(th[p].pre) = 3
    /\ th[p].pre[1] # th[p].pre[2]
    /\ th[p].name = "bob"
    /\ Len(EMBED_FILE.data) = 1
    /\ Get(EMBED_FILE.data, "bob") # <<EnrolledVec("bob")>>

\* The entries of the stores d and e under the name n are the same, or
\* neither has one.
SameEntry(d, e, n) ==
  /\ HasKey(d, n) <=> HasKey(e, n)
  /\ HasKey(d, n) => Get(d, n) = Get(e, n)

\* C24: a save of a non-empty list for a name puts exactly that list
\* under the name and leaves the entry of every other name as the store
\* has it when the save writes, also when a save or a delete of another
\* name runs at the same time.
C24_SaveOneName ==
  [][\A p \in Threads :
       (th[p].pc = "save_open" /\ th'[p].pc = "save_flush" /\ EMBED_FILE.ok)
         => /\ Get(th[p].db, th[p].name) = th[p].embs
            /\ \A n \in Names \ {th[p].name} :
                 SameEntry(th[p].db, EMBED_FILE.data, n)]_vars

\* C25: a create that succeeds returns a user_id that was no key of the
\* registry before the call, and the registry after it is the registry
\* before it with exactly one more entry, the new one.
C25_FreshUserId ==
  [][\A p \in Threads :
       (th[p].pc = "add_flush" /\ th'[p].pc = "reg_lock")
       => LET before == th[p].pre[2]
          IN  /\ ~HasKey(before, th[p].uid)
              /\ USERS_FILE'.data
                   = Append(before, <<th[p].uid, th[p].name>>)]_vars

\* C26: once a delete has returned found for a user, and as long as no
\* enrollment of that name is accepted afterwards, the embedding store
\* holds no entry of that name, also when the delete ran while the job of
\* the user's enrollment was still in flight.
C26_DeletedStaysGone ==
  \A n \in deleted : ~HasKey(EMBED_FILE.data, n)

\* C27: a record of the registry stays in it until a delete that resolves
\* to it succeeds: a create or a delete of another user that runs at the
\* same time writes back every record of another user_id and another name
\* that the registry holds when it writes.
C27_RegistryNoLostUpdate ==
  [][\A p \in Threads :
       (/\ th[p].pc \in {"add_open", "del_open"}
        /\ th'[p].pc \in {"add_flush", "del_flush"}
        /\ USERS_FILE.ok)
       => \A i \in 1..Len(USERS_FILE.data) :
            (/\ USERS_FILE.data[i][1] # th[p].uid
             /\ Lower(USERS_FILE.data[i][2]) # Lower(th[p].name))
              => \E j \in 1..Len(th[p].users) :
                   th[p].users[j] = USERS_FILE.data[i]]_vars


====
